---- MODULE Spec2Model ----
(***************************************************************************)
(* v8-cpu: an 8-bit machine with 16 registers, 256 bytes of memory, a      *)
(* two-byte instruction codec (src/vm.rs), an assembler (src/asm.rs) and   *)
(* an action journal that makes every step reversible.                     *)
(*                                                                         *)
(* Bytes are naturals in 0..255; every u8 operation is written with the    *)
(* width the Rust code gives it.  A panic of the Rust program is a final   *)
(* outcome of the call that raised it: the VM is not used afterwards.      *)
(***************************************************************************)
EXTENDS Integers, Sequences, FiniteSets, TLC

(***************************************************************************)
(* Bounds of the model.                                                    *)
(***************************************************************************)
\* step calls explored between two resets
MaxSteps == 4

(***************************************************************************)
(* Program constants.                                                      *)
(***************************************************************************)
NumRegs == 16
MemSize == 256
AsmLimit == 256

Byte == 0..255
RegIdx == 0..(NumRegs - 1)
Addr == 0..(MemSize - 1)

(***************************************************************************)
(* u8 arithmetic.                                                          *)
(***************************************************************************)
RECURSIVE Pow2(_)
Pow2(n) == IF n = 0 THEN 1 ELSE 2 * Pow2(n - 1)

RECURSIVE BitAnd(_, _)
BitAnd(a, b) ==
    IF a = 0 \/ b = 0 THEN 0
    ELSE (a % 2) * (b % 2) + 2 * BitAnd(a \div 2, b \div 2)

RECURSIVE BitOr(_, _)
BitOr(a, b) ==
    IF a = 0 THEN b
    ELSE IF b = 0 THEN a
    ELSE ((a % 2) + (b % 2) - (a % 2) * (b % 2)) + 2 * BitOr(a \div 2, b \div 2)

RECURSIVE BitXor(_, _)
BitXor(a, b) ==
    IF a = 0 THEN b
    ELSE IF b = 0 THEN a
    ELSE (((a % 2) + (b % 2)) % 2) + 2 * BitXor(a \div 2, b \div 2)

\* u8 << n and u8 >> n for a shift amount below the width
Shl(a, n) == (a * Pow2(n)) % 256
Shr(a, n) == a \div Pow2(n)

\* an addition that saturates at 255
wrapping_add_saturating(a, b) == IF a + b > 255 THEN 255 ELSE a + b
wrapping_add(a, b) == (a + b) % 256

(***************************************************************************)
(* Instruction codec: Instr::new.                                          *)
(***************************************************************************)
low(byte) == BitAnd(byte, 15)
high(byte) == BitAnd(Shr(byte, 4), 15)

InstrNew(i0, i1) ==
    CASE high(i0) = 0 -> <<"None">>
      [] high(i0) = 1 -> <<"LoadFromMemory", low(i0), i1>>
      [] high(i0) = 2 -> <<"LoadWithConstant", low(i0), i1>>
      [] high(i0) = 3 -> <<"StoreToMemory", low(i0), i1>>
      [] high(i0) = 4 -> <<"Move", high(i1), low(i1)>>
      [] high(i0) = 5 -> <<"AddInt", low(i0), high(i1), low(i1)>>
      [] high(i0) = 6 -> <<"AddFloat", low(i0), high(i1), low(i1)>>
      [] high(i0) = 7 -> <<"Or", low(i0), high(i1), low(i1)>>
      [] high(i0) = 8 -> <<"And", low(i0), high(i1), low(i1)>>
      [] high(i0) = 9 -> <<"Xor", low(i0), high(i1), low(i1)>>
      [] high(i0) = 10 -> <<"Rotate", low(i0), i1>>
      [] high(i0) = 11 -> <<"JumpIfEqual", low(i0), i1>>
      [] high(i0) = 12 -> <<"Halt">>
      [] high(i0) = 13 -> <<"LoadFromPointer", low(i0), low(i1)>>
      [] high(i0) = 14 -> <<"StoreToPointer", low(i0), low(i1)>>
      [] high(i0) = 15 -> <<"JumpIfLess", low(i0), i1>>

(***************************************************************************)
(* The VM as a value: [regs, memory, pc, actions].  An Action is           *)
(* <<"None">>, <<"SetReg", reg, value>>, <<"SetMem", addr, value>> or      *)
(* <<"Jump", addr>>.                                                       *)
(***************************************************************************)
VMNew ==
    [regs |-> [r \in RegIdx |-> 0],
     memory |-> [a \in Addr |-> 0],
     pc |-> 0,
     actions |-> <<>>]

\* VM::fill: zero the memory, then copy the slice to its front
fill(vm, bytes) ==
    [vm EXCEPT !.memory =
        [a \in Addr |-> IF a < Len(bytes) THEN bytes[a + 1] ELSE 0]]

\* an execute whose Jump returns the target it was given, not the pc it replaced
execute_returnsTarget(vm, action) ==
    CASE action[1] = "None" ->
            [vm |-> vm, ret |-> <<"None">>]
      [] action[1] = "SetReg" ->
            [vm |-> [vm EXCEPT !.regs[action[2]] = action[3]],
             ret |-> <<"SetReg", action[2], vm.regs[action[2]]>>]
      [] action[1] = "SetMem" ->
            [vm |-> [vm EXCEPT !.memory[action[2]] = action[3]],
             ret |-> <<"SetMem", action[2], vm.memory[action[2]]>>]
      [] action[1] = "Jump" ->
            [vm |-> [vm EXCEPT !.pc = action[2]],
             ret |-> <<"Jump", action[2]>>]

\* VM::execute: apply the action, return the action that reverts it
execute(vm, action) ==
    CASE action[1] = "None" ->
            [vm |-> vm, ret |-> <<"None">>]
      [] action[1] = "SetReg" ->
            [vm |-> [vm EXCEPT !.regs[action[2]] = action[3]],
             ret |-> <<"SetReg", action[2], vm.regs[action[2]]>>]
      [] action[1] = "SetMem" ->
            [vm |-> [vm EXCEPT !.memory[action[2]] = action[3]],
             ret |-> <<"SetMem", action[2], vm.memory[action[2]]>>]
      [] action[1] = "Jump" ->
            [vm |-> [vm EXCEPT !.pc = action[2]],
             ret |-> <<"Jump", vm.pc>>]

\* a redo that journals the action it applied, not the one that reverts it
redo_pushesApplied(vm, action) ==
    [execute(vm, action).vm EXCEPT !.actions = Append(@, action)]

\* VM::redo
redo(vm, action) ==
    LET r == execute(vm, action)
    IN  [r.vm EXCEPT !.actions = Append(@, r.ret)]

getr(vm, reg) == vm.regs[reg]
load(vm, addr) == vm.memory[addr]

\* VM::dis reads memory[addr] and memory[addr + 1]; the second index is out
\* of bounds for addr = 255 and the read panics
disPanics(addr) == addr + 1 > MemSize - 1
dis(vm, addr) == InstrNew(vm.memory[addr], vm.memory[addr + 1])

\* Rotate arm of VM::exec.  The left shift by (8 - shift) has amount 8 when
\* shift = 0: with overflow checks the shift panics, without them the amount
\* is taken modulo the width.
RotatePanics(shift, checks) == checks /\ BitAnd(shift, 7) = 0
RotateValue(val, shift) ==
    LET s == BitAnd(shift, 7)
    IN  BitOr(Shr(val, s), Shl(BitAnd(val, Pow2(s) - 1), (8 - s) % 8))

\* the conditions of the two conditional jumps of VM::exec
JumpIfEqualTaken(vm, reg) == getr(vm, reg) = getr(vm, 0)
\* a jump-if-less that is also taken on equality
JumpIfLessTaken_orEqual(vm, reg) == getr(vm, reg) <= getr(vm, 0)
JumpIfLessTaken(vm, reg) == getr(vm, reg) < getr(vm, 0)

\* The Action VM::exec computes for an instruction that reaches redo
ActionOf(vm, instr) ==
    CASE instr[1] = "None" -> <<"None">>
      [] instr[1] = "LoadFromMemory" -> <<"SetReg", instr[2], load(vm, instr[3])>>
      [] instr[1] = "LoadWithConstant" -> <<"SetReg", instr[2], instr[3]>>
      [] instr[1] = "StoreToMemory" -> <<"SetMem", instr[3], getr(vm, instr[2])>>
      [] instr[1] = "Move" -> <<"SetReg", instr[3], getr(vm, instr[2])>>
      [] instr[1] = "AddInt" ->
            <<"SetReg", instr[2], wrapping_add(getr(vm, instr[3]), getr(vm, instr[4]))>>
      [] instr[1] = "Or" ->
            <<"SetReg", instr[2], BitOr(getr(vm, instr[3]), getr(vm, instr[4]))>>
      [] instr[1] = "And" ->
            <<"SetReg", instr[2], BitAnd(getr(vm, instr[3]), getr(vm, instr[4]))>>
      [] instr[1] = "Xor" ->
            <<"SetReg", instr[2], BitXor(getr(vm, instr[3]), getr(vm, instr[4]))>>
      [] instr[1] = "Rotate" ->
            <<"SetReg", instr[2], RotateValue(getr(vm, instr[2]), instr[3])>>
      [] instr[1] = "JumpIfEqual" ->
            IF JumpIfEqualTaken(vm, instr[2]) THEN <<"Jump", instr[3]>> ELSE <<"None">>
      [] instr[1] = "LoadFromPointer" ->
            <<"SetReg", instr[2], load(vm, getr(vm, instr[3]))>>
      [] instr[1] = "StoreToPointer" ->
            <<"SetMem", getr(vm, instr[3]), getr(vm, instr[2])>>
      [] instr[1] = "JumpIfLess" ->
            IF JumpIfLessTaken(vm, instr[2]) THEN <<"Jump", instr[3]>> ELSE <<"None">>

\* VM::exec: Halt returns false before redo is called; AddFloat falls to the
\* unimplemented!() arm, which panics; every other instruction is journaled
\* by redo and returns true.
\* a Halt that is journaled like a no-op and lets the run continue
HaltArm_journaled(vm) == [vm |-> redo(vm, <<"None">>), res |-> "true"]
HaltArm(vm) == [vm |-> vm, res |-> "false"]

exec(vm, instr, checks) ==
    CASE instr[1] = "Halt" -> HaltArm(vm)
      [] instr[1] = "AddFloat" -> [vm |-> vm, res |-> "panic_unimplemented"]
      [] instr[1] = "Rotate" /\ RotatePanics(instr[3], checks) ->
            [vm |-> vm, res |-> "panic_arith"]
      [] OTHER -> [vm |-> redo(vm, ActionOf(vm, instr)), res |-> "true"]

\* a step that stores the wrapped pc before it returns the overflow error
step_advancesFirst(vm, checks) ==
    IF disPanics(vm.pc) THEN [vm |-> vm, res |-> "panic_index"]
    ELSE IF vm.pc + 2 > 255
    THEN [vm |-> [vm EXCEPT !.pc = (vm.pc + 2) % 256], res |-> "err_pc_overflow"]
    ELSE exec([vm EXCEPT !.pc = vm.pc + 2], dis(vm, vm.pc), checks)


\* a step that executes the fetched instruction without advancing the pc
step_keepsPc(vm, checks) ==
    IF disPanics(vm.pc) THEN [vm |-> vm, res |-> "panic_index"]
    ELSE IF vm.pc + 2 > 255 THEN [vm |-> vm, res |-> "err_pc_overflow"]
    ELSE exec(vm, dis(vm, vm.pc), checks)
\* VM::step: fetch, advance pc with checked_add(2), execute
step(vm, checks) ==
    IF disPanics(vm.pc) THEN [vm |-> vm, res |-> "panic_index"]
    ELSE IF vm.pc + 2 > 255 THEN [vm |-> vm, res |-> "err_pc_overflow"]
    ELSE exec([vm EXCEPT !.pc = vm.pc + 2], dis(vm, vm.pc), checks)

\* VM::undo: pop, re-apply, pc -= 2.  The subtraction on a pc below 2 panics
\* with overflow checks and wraps without them.
\* an undo that leaves pc where the re-applied action put it
undoPc_kept(p) == p
undoPc(p) == (p + 256 - 2) % 256

\* an undo that moves pc back although the journal is empty
undoEmpty_movesPc(vm) == [vm |-> [vm EXCEPT !.pc = (vm.pc + 256 - 2) % 256], res |-> "none"]
\* VM::undo when actions.pop() is None: nothing happens
undoEmpty(vm) == [vm |-> vm, res |-> "none"]

undo(vm, checks) ==
    IF vm.actions = <<>> THEN undoEmpty(vm)
    ELSE LET n == Len(vm.actions)
             popped == [vm EXCEPT !.actions = SubSeq(@, 1, n - 1)]
             v == execute(popped, vm.actions[n]).vm
         IN  IF v.pc < 2 /\ checks
             THEN [vm |-> v, res |-> "panic_arith"]
             ELSE [vm |-> [v EXCEPT !.pc = undoPc(v.pc)], res |-> "none"]

\* a reset that clears the memory too
reset_clearsMemory(vm) ==
    [vm EXCEPT !.regs = [r \in RegIdx |-> 0], !.memory = [a \in Addr |-> 0],
               !.pc = 0, !.actions = <<>>]

\* VM::reset
reset(vm) ==
    [vm EXCEPT !.regs = [r \in RegIdx |-> 0], !.pc = 0, !.actions = <<>>]

(***************************************************************************)
(* Assembler (src/asm.rs), on parsed lines: a line is <<mnemonic, operand, *)
(* ...>> with a register operand given by the index getr parsed and a      *)
(* value operand by the byte getv produced.                                *)
(***************************************************************************)
OutputNew == [mem |-> [i \in 0..(AsmLimit - 1) |-> 0], pos |-> 0, ok |-> TRUE]

\* a push that drops the bytes past the limit without an error
push_dropsPastLimit(out, val) ==
    IF ~out.ok \/ out.pos >= AsmLimit THEN out
    ELSE [out EXCEPT !.mem[out.pos] = val, !.pos = out.pos + 1]

\* Output::push; ok = FALSE is the Err that `?` carries out of assemble
push(out, val) ==
    IF ~out.ok THEN out
    ELSE IF out.pos >= AsmLimit THEN [out EXCEPT !.ok = FALSE]
    ELSE [out EXCEPT !.mem[out.pos] = val, !.pos = out.pos + 1]

\* a join that forgets to shift the first nibble
jo_unshifted(a, b) == BitOr(a, b)
jo(a, b) == BitOr(Shl(a, 4), b)

p_rv(line, out, op) == push(push(out, jo(op, line[2])), line[3])
p_rrr(line, out, op) == push(push(out, jo(op, line[2])), jo(line[3], line[4]))
p_rr(line, out, op) == push(push(out, jo(op, line[2])), line[3])

\* the "move" arm of parse_line: r1 is the first operand, r2 the second
\* a move arm that joins its operands in the order they were written
p_move_inOrder(line, out) == push(push(out, 64), jo(line[2], line[3]))
p_move(line, out) == push(push(out, 64), jo(line[3], line[2]))

\* the mnemonic table of parse_line
parse_line(line, out) ==
    CASE line[1] = "none" -> push(push(out, 0), 0)
      [] line[1] = "loadm" -> p_rv(line, out, 1)
      [] line[1] = "loadb" -> p_rv(line, out, 2)
      [] line[1] = "storem" -> p_rv(line, out, 3)
      [] line[1] = "move" -> p_move(line, out)
      [] line[1] = "addi" -> p_rrr(line, out, 5)
      [] line[1] = "addf" -> p_rrr(line, out, 6)
      [] line[1] = "or" -> p_rrr(line, out, 7)
      [] line[1] = "and" -> p_rrr(line, out, 8)
      [] line[1] = "xor" -> p_rrr(line, out, 9)
      [] line[1] = "rot" -> p_rv(line, out, 10)
      [] line[1] = "jump" -> p_rv(line, out, 11)
      [] line[1] = "halt" -> push(push(out, 192), 0)
      [] line[1] = "loadp" -> p_rr(line, out, 13)
      [] line[1] = "storep" -> p_rr(line, out, 14)
      [] line[1] = "jumpl" -> p_rv(line, out, 15)
      [] line[1] = "db" -> push(out, line[2])
      [] OTHER -> [out EXCEPT !.ok = FALSE]

RECURSIVE parse_lines(_, _)
parse_lines(code, out) ==
    IF code = <<>> \/ ~out.ok THEN out
    ELSE parse_lines(Tail(code), parse_line(Head(code), out))

\* assemble: the 256-byte image, or an error
assemble(code) ==
    LET out == parse_lines(code, OutputNew)
    IN  [ok |-> out.ok,
         bytes |-> IF out.ok THEN [i \in 1..AsmLimit |-> out.mem[i - 1]] ELSE <<>>]

(***************************************************************************)
(* The inputs of fill: assembled programs and raw byte streams.            *)
(***************************************************************************)
Programs ==
    { \* the example of the specification
      << <<"loadb", 0, 5>>, <<"loadb", 1, 3>>, <<"addi", 2, 0, 1>>, <<"halt">> >>,
      << <<"halt">> >>,
      << <<"loadb", 1, 7>>, <<"addf", 1, 2, 3>> >>,
      \* taken jumps to the last even and the last odd address
      << <<"jump", 0, 254>> >>,
      << <<"jump", 0, 255>> >>,
      \* a jump that is not taken, then a backward jump that is
      << <<"loadb", 0, 1>>, <<"jump", 1, 6>>, <<"jumpl", 1, 0>> >>,
      << <<"jumpl", 0, 6>>, <<"loadb", 0, 9>>, <<"jumpl", 2, 3>> >>,
      \* stores, one of them over the next instruction
      << <<"loadb", 1, 192>>, <<"storem", 1, 4>>, <<"loadb", 2, 1>> >>,
      << <<"loadb", 3, 8>>, <<"storep", 3, 3>>, <<"loadp", 4, 3>>, <<"loadm", 5, 1>> >>,
      << <<"loadb", 1, 176>>, <<"rot", 1, 3>>, <<"move", 2, 1>>, <<"rot", 1, 8>> >>,
      << <<"loadb", 1, 202>>, <<"loadb", 2, 172>>, <<"xor", 3, 1, 2>>, <<"and", 1, 1, 2>>,
         <<"or", 2, 2, 3>> >> }

\* a binary image of 254 bytes: a jump to the odd address 253, where the
\* last byte of the image is a Halt opcode
HaltAt253 ==
    [i \in 1..254 |-> CASE i = 1 -> 176 [] i = 2 -> 253 [] i = 254 -> 192 [] OTHER -> 0]

\* a binary image of 255 bytes: a jump to 254, where a Halt opcode is stored
HaltAt254 ==
    [i \in 1..255 |-> CASE i = 1 -> 176 [] i = 2 -> 254 [] i = 255 -> 192 [] OTHER -> 0]

RawImages == { <<>>, <<192>>, <<32, 5, 192, 0>>, HaltAt253, HaltAt254 }

Images == { assemble(p).bytes : p \in { q \in Programs : assemble(q).ok } } \cup RawImages

\* the images loaded over a VM that already holds a program
Reloads ==
    { <<192>>,
      assemble(<< <<"jumpl", 0, 6>>, <<"loadb", 0, 9>>, <<"jumpl", 2, 3>> >>).bytes,
      assemble(<< <<"loadb", 1, 192>>, <<"storem", 1, 4>>, <<"loadb", 2, 1>> >>).bytes }

(***************************************************************************)
(* State.  regs, memory, pc, actions are the fields of VM; checks is the   *)
(* build's overflow-checks setting; lastop and result are the last call of *)
(* the controller and its outcome.  The remaining variables are history:   *)
(* loaded says whether fill was never called, called once, or called again *)
(* over a loaded VM;                                                       *)
(* nsteps counts the step calls that completed since the last reset, clean *)
(* says that these steps were neither followed nor interleaved with an     *)
(* undo or a fill, snaps holds the VM before each step of the current run  *)
(* of consecutive steps (with the step's outcome), undoing says that the   *)
(* run is being undone, and expect is the snapshot taken before the step   *)
(* that the last undo answers (imm: that step was the previous call;       *)
(* alltrue: that step and every later step of the run returned true).      *)
(* asm_line, asm_out and decoded are an assembly line, the bytes assemble  *)
(* emits for it and the instruction Instr::new decodes from them; they are *)
(* used by the specifications of the assembler and stay empty under Spec,  *)
(* as do asm_in, the source program handed to the assembler, and asm_res,  *)
(* the outcome of assembling it.                                           *)
(***************************************************************************)
VARIABLES regs, memory, pc, actions, checks, lastop, result,
          loaded, nsteps, clean, snaps, undoing, expect,
          asm_line, asm_out, decoded, asm_in, asm_res

vmvars == <<regs, memory, pc, actions>>
asmvars == <<asm_line, asm_out, decoded, asm_in, asm_res>>
vars == <<regs, memory, pc, actions, checks, lastop, result,
          loaded, nsteps, clean, snaps, undoing, expect,
          asm_line, asm_out, decoded, asm_in, asm_res>>

VM == [regs |-> regs, memory |-> memory, pc |-> pc, actions |-> actions]

Panics == {"panic_index", "panic_unimplemented", "panic_arith"}
Completed == {"true", "false"}
Crashed == result \in Panics

NoSnap == [valid |-> FALSE]

\* asm_res before assemble has run
NotAssembled == [ok |-> FALSE, err |-> "pending", labels |-> {}, pos |-> 0]

SetVM(vm) ==
    /\ regs' = vm.regs
    /\ memory' = vm.memory
    /\ pc' = vm.pc
    /\ actions' = vm.actions

Init ==
    /\ regs = VMNew.regs
    /\ memory = VMNew.memory
    /\ pc = VMNew.pc
    /\ actions = VMNew.actions
    /\ checks \in BOOLEAN
    /\ lastop = "new"
    /\ result = "none"
    /\ loaded = "empty"
    /\ nsteps = 0
    /\ clean = TRUE
    /\ snaps = <<>>
    /\ undoing = FALSE
    /\ expect = NoSnap
    /\ asm_line = <<>>
    /\ asm_out = <<>>
    /\ decoded = <<>>
    /\ asm_in = <<>>
    /\ asm_res = NotAssembled

Fill ==
    \E bytes \in (IF loaded = "empty" THEN Images ELSE Reloads) :
        /\ ~Crashed
        /\ loaded # "reloaded"
        /\ loaded' = IF loaded = "empty" THEN "loaded" ELSE "reloaded"
        /\ SetVM(fill(VM, bytes))
        /\ lastop' = "fill"
        /\ result' = "none"
        /\ snaps' = <<>>
        /\ undoing' = FALSE
        /\ expect' = NoSnap
        /\ clean' = (clean /\ nsteps = 0)
        /\ UNCHANGED <<checks, nsteps, asmvars>>

Reset ==
    /\ ~Crashed
    /\ SetVM(reset(VM))
    /\ lastop' = "reset"
    /\ result' = "none"
    /\ nsteps' = 0
    /\ clean' = TRUE
    /\ snaps' = <<>>
    /\ undoing' = FALSE
    /\ expect' = NoSnap
    /\ UNCHANGED <<checks, loaded, asmvars>>

Step ==
    /\ ~Crashed
    /\ nsteps < MaxSteps
    /\ LET r == step(VM, checks)
           pre == [valid |-> TRUE, regs |-> regs, memory |-> memory, pc |-> pc,
                   actions |-> actions, ret |-> r.res, imm |-> FALSE,
                   alltrue |-> FALSE]
       IN  /\ SetVM(r.vm)
           /\ lastop' = "step"
           /\ result' = r.res
           /\ nsteps' = IF r.res \in Completed THEN nsteps + 1 ELSE nsteps
           /\ snaps' = IF r.res \notin Completed THEN <<>>
                       ELSE IF undoing THEN <<pre>>
                       ELSE Append(snaps, pre)
    /\ undoing' = FALSE
    /\ expect' = NoSnap
    /\ UNCHANGED <<checks, loaded, clean, asmvars>>

Undo ==
    /\ ~Crashed
    /\ LET r == undo(VM, checks)
       IN  /\ SetVM(r.vm)
           /\ result' = r.res
    /\ lastop' = "undo"
    /\ clean' = FALSE
    /\ undoing' = TRUE
    /\ expect' = IF snaps = <<>> THEN NoSnap
                  ELSE [snaps[Len(snaps)] EXCEPT
                           !.imm = (lastop = "step"),
                           !.alltrue = /\ snaps[Len(snaps)].ret = "true"
                                       /\ undoing => (expect.valid /\ expect.alltrue)]
    /\ snaps' = IF snaps = <<>> THEN <<>> ELSE SubSeq(snaps, 1, Len(snaps) - 1)
    /\ UNCHANGED <<checks, loaded, nsteps, asmvars>>

Next == Fill \/ Reset \/ Step \/ Undo

Spec == Init /\ [][Next]_vars

TypeOK ==
    /\ regs \in [RegIdx -> Byte]
    /\ memory \in [Addr -> Byte]
    /\ pc \in Byte
    /\ \A i \in 1..Len(actions) : actions[i][1] \in {"None", "SetReg", "SetMem", "Jump"}

(***************************************************************************)
(* Properties of the execution engine, checked under Spec.                 *)
(***************************************************************************)
ZeroRegs == [r \in RegIdx |-> 0]

\* the opcode of the instruction a step fetches in the current state
Fetched == high(memory[pc])

\* C1: N completed steps (a Halt step counts) followed by N undos return the
\* registers, the memory and pc to their values before the first of the
\* steps.  expect is the VM before the k-th last step when the k-th undo of
\* the run has been called.
C1_UndoInverse ==
    (lastop = "undo" /\ expect.valid) =>
        /\ regs = expect.regs
        /\ memory = expect.memory
        /\ pc = expect.pc

\* C1 for the runs whose steps all returned true: the case the code keeps
C1_UndoInverseNoHalt ==
    (lastop = "undo" /\ expect.valid /\ expect.alltrue) =>
        /\ result = "none"
        /\ regs = expect.regs
        /\ memory = expect.memory
        /\ pc = expect.pc

\* C2: a step that returned true, immediately followed by one undo, leaves pc
\* at the address the instruction was fetched from and the registers, the
\* memory and the journal as they were before the step.
C2_StepUndo ==
    (lastop = "undo" /\ expect.valid /\ expect.imm /\ expect.ret = "true") =>
        /\ result = "none"
        /\ pc = expect.pc
        /\ regs = expect.regs
        /\ memory = expect.memory
        /\ actions = expect.actions

\* the undone step was a taken conditional jump to another address than the
\* next instruction's
C2_Witness ==
    /\ lastop = "undo" /\ expect.valid /\ expect.imm /\ expect.ret = "true"
    /\ high(expect.memory[expect.pc]) = 15
    /\ expect.regs[low(expect.memory[expect.pc])] < expect.regs[0]
    /\ expect.memory[expect.pc + 1] # expect.pc + 2

\* C3: after a reset or on a fresh VM, k completed steps with no undo in
\* between leave exactly k entries in the journal, a Halt step included.
C3_JournalCountsSteps == clean => Len(actions) = nsteps

\* C3 for the steps that returned true: a Halt step adds no entry
C3_JournalCountsTrueSteps ==
    (/\ clean
     /\ Len(snaps) = nsteps
     /\ \A i \in 1..Len(snaps) : snaps[i].ret = "true")
        => Len(actions) = nsteps

\* C4: a step that fetches Halt at a pc <= 253 returns false, changes no
\* register and no memory byte, and leaves pc at the fetch address plus 2.
C4_HaltStep ==
    [][(lastop' = "step" /\ pc <= 253 /\ Fetched = 12) =>
            /\ result' = "false"
            /\ regs' = regs
            /\ memory' = memory
            /\ pc' = pc + 2]_vars

\* a Halt was executed at an address other than 0, with registers loaded
C4_Witness ==
    /\ lastop = "step" /\ result = "false"
    /\ pc > 2
    /\ regs # ZeroRegs

\* C5: when pc + 2 exceeds 255 (pc = 254 or pc = 255), step returns the
\* program-counter overflow error; it does not crash.
C5_OverflowIsError ==
    [][(lastop' = "step" /\ pc + 2 > 255) => result' = "err_pc_overflow"]_vars

\* C5 at pc = 254, where the fetch stays inside the memory
C5_OverflowAt254 ==
    [][(lastop' = "step" /\ pc = 254) => result' = "err_pc_overflow"]_vars

\* C6: a step that fetches the float-add opcode ends with an unimplemented
\* instruction error returned to the caller, journals nothing and changes no
\* register and no memory byte.
C6_AddFloatIsError ==
    [][(lastop' = "step" /\ pc <= 253 /\ Fetched = 6) =>
            /\ result' = "err_unimplemented"
            /\ actions' = actions
            /\ regs' = regs
            /\ memory' = memory]_vars

\* C6 as the code has it: the step panics
C6_AddFloatPanics ==
    [][(lastop' = "step" /\ pc <= 253 /\ Fetched = 6) =>
            /\ result' = "panic_unimplemented"
            /\ actions' = actions
            /\ regs' = regs
            /\ memory' = memory]_vars

\* C7: a conditional jump fetched at a with register r and target t sets pc
\* to t when reg[r] = reg[0] (opcode 11) or reg[r] < reg[0] (opcode 15) and
\* to a + 2 otherwise; it changes no register and no memory byte, returns
\* true and journals one Action.
C7_ConditionalJump ==
    [][(lastop' = "step" /\ pc <= 253 /\ Fetched \in {11, 15}) =>
            LET r == low(memory[pc])
                t == memory[pc + 1]
                taken == IF Fetched = 11 THEN regs[r] = regs[0] ELSE regs[r] < regs[0]
            IN  /\ pc' = IF taken THEN t ELSE pc + 2
                /\ regs' = regs
                /\ memory' = memory
                /\ result' = "true"
                /\ Len(actions') = Len(actions) + 1]_vars

\* a jump-if-less was taken, to an odd address that is not the next one
C7_Witness ==
    /\ lastop = "step" /\ result = "true"
    /\ actions # <<>>
    /\ actions[Len(actions)][1] = "Jump"
    /\ actions[Len(actions)][2] >= 2
    /\ high(memory[actions[Len(actions)][2] - 2]) = 15
    /\ pc # actions[Len(actions)][2]
    /\ pc % 2 = 1

\* C10: fill loads the bytes, zero-padded, and resets the rest of the VM:
\* registers 0, pc 0, journal empty.
C10_FillResets ==
    [][lastop' = "fill" =>
            /\ \E bytes \in Images \cup Reloads :
                   \A a \in Addr : memory'[a] = IF a < Len(bytes) THEN bytes[a + 1] ELSE 0
            /\ regs' = ZeroRegs
            /\ pc' = 0
            /\ actions' = <<>>]_vars

\* C10 for the memory alone: what fill does
C10_FillLoadsMemory ==
    [][lastop' = "fill" =>
            /\ \E bytes \in Images \cup Reloads :
                   \A a \in Addr : memory'[a] = IF a < Len(bytes) THEN bytes[a + 1] ELSE 0
            /\ regs' = regs
            /\ pc' = pc
            /\ actions' = actions]_vars

\* C11: reset sets the registers and pc to 0, empties the journal and
\* leaves every memory byte as it was before the call.
C11_ResetKeepsMemory ==
    [][lastop' = "reset" =>
            /\ regs' = ZeroRegs
            /\ pc' = 0
            /\ actions' = <<>>
            /\ memory' = memory]_vars

\* a reset after a store instruction overwrote a byte of the loaded program
C11_Witness ==
    /\ lastop = "reset"
    /\ memory[0] = 33 /\ memory[2] = 49 /\ memory[4] = 192

\* C12: undo on an empty journal changes nothing: registers, memory, pc and
\* the journal stay as they are, and pc is not decremented.
C12_UndoEmptyJournal ==
    [][(lastop' = "undo" /\ actions = <<>>) =>
            /\ result' = "none"
            /\ regs' = regs
            /\ memory' = memory
            /\ pc' = pc
            /\ actions' = actions]_vars

\* undo was called right after a Halt step that found the journal empty
C12_Witness ==
    /\ lastop = "undo"
    /\ expect.valid /\ expect.imm /\ expect.ret = "false" /\ expect.actions = <<>>
    /\ pc >= 2

\* v rotated right by k positions within 8 bits, 0 <= k <= 7
RotRight(v, k) == (v \div Pow2(k)) + (v % Pow2(k)) * Pow2(8 - k)

\* C13: a step executing rot on a register holding v with shift operand s
\* succeeds and sets the register to v rotated right by s mod 8 positions
\* (unchanged when s mod 8 = 0).
C13_RotateSucceeds ==
    [][(lastop' = "step" /\ pc <= 253 /\ Fetched = 10) =>
            /\ result' = "true"
            /\ regs' = [regs EXCEPT ![low(memory[pc])] =
                            RotRight(regs[low(memory[pc])], memory[pc + 1] % 8)]]_vars

\* C13 where the code keeps it: without overflow checks, or s mod 8 # 0
C13_RotateUnlessChecked ==
    [][(lastop' = "step" /\ pc <= 253 /\ Fetched = 10
            /\ (~checks \/ memory[pc + 1] % 8 # 0)) =>
            /\ result' = "true"
            /\ regs' = [regs EXCEPT ![low(memory[pc])] =
                            RotRight(regs[low(memory[pc])], memory[pc + 1] % 8)]]_vars

\* the opcodes that write a register, and those that write a memory byte
RegWriters == {1, 2, 4, 5, 7, 8, 9, 10, 13}
MemWriters == {3, 14}

\* C17: a step that returns true appends exactly one Action and changes at
\* most one cell: a register-writing instruction only its destination
\* register, a store only the addressed byte, none and jumps no cell; the
\* Action names the cell and carries its previous value.
C17_OneCellPerStep ==
    [][(lastop' = "step" /\ result' = "true") =>
            LET i0 == memory[pc]
                i1 == memory[pc + 1]
                dst == IF Fetched = 4 THEN low(i1) ELSE low(i0)
                addr == IF Fetched = 3 THEN i1 ELSE regs[low(i1)]
                last == actions'[Len(actions')]
            IN  /\ Len(actions') = Len(actions) + 1
                /\ SubSeq(actions', 1, Len(actions)) = actions
                /\ Fetched \in RegWriters =>
                        /\ memory' = memory
                        /\ \A r \in RegIdx \ {dst} : regs'[r] = regs[r]
                        /\ last = <<"SetReg", dst, regs[dst]>>
                /\ Fetched \in MemWriters =>
                        /\ regs' = regs
                        /\ \A a \in Addr \ {addr} : memory'[a] = memory[a]
                        /\ last = <<"SetMem", addr, memory[addr]>>
                /\ Fetched \notin (RegWriters \cup MemWriters) =>
                        /\ regs' = regs
                        /\ memory' = memory
                        /\ last[1] \in {"None", "Jump"}]_vars

\* a store was journaled with the non-zero byte it overwrote
C17_Witness ==
    /\ lastop = "step" /\ result = "true"
    /\ actions # <<>>
    /\ actions[Len(actions)][1] = "SetMem"
    /\ actions[Len(actions)][3] # 0
    /\ memory[actions[Len(actions)][2]] # actions[Len(actions)][3]

\* C20: when step returns the program-counter overflow error, registers,
\* memory, pc and the journal are as before the call; the instruction at
\* address 254 is not executed.
C20_OverflowChangesNothing ==
    [][(lastop' = "step" /\ result' = "err_pc_overflow") =>
            /\ pc = 254
            /\ regs' = regs
            /\ memory' = memory
            /\ pc' = pc
            /\ actions' = actions]_vars

\* the overflow error was returned with a Halt stored at address 254
C20_Witness ==
    /\ lastop = "step" /\ result = "err_pc_overflow"
    /\ pc = 254
    /\ memory[254] = 192

(***************************************************************************)
(* The codec round trip: one assembly line is assembled and the two bytes  *)
(* emitted for it are decoded by Instr::new.                               *)
(***************************************************************************)
NoOperandMnemonics == {"none", "halt"}
RegValueMnemonics == {"loadm", "loadb", "storem", "rot", "jump", "jumpl"}
ThreeRegMnemonics == {"addi", "addf", "or", "and", "xor"}
TwoRegMnemonics == {"move", "loadp", "storep"}

Lines ==
    { <<m>> : m \in NoOperandMnemonics }
    \cup { <<m, r, v>> : m \in RegValueMnemonics, r \in RegIdx, v \in Byte }
    \cup { <<m, r1, r2, r3>> : m \in ThreeRegMnemonics, r1 \in RegIdx, r2 \in RegIdx,
                               r3 \in RegIdx }
    \cup { <<m, r1, r2>> : m \in TwoRegMnemonics, r1 \in RegIdx, r2 \in RegIdx }

InitAsm(lines) ==
    /\ regs = VMNew.regs
    /\ memory = VMNew.memory
    /\ pc = VMNew.pc
    /\ actions = VMNew.actions
    /\ lastop = "new"
    /\ result = "none"
    /\ loaded = "empty"
    /\ nsteps = 0
    /\ clean = TRUE
    /\ snaps = <<>>
    /\ undoing = FALSE
    /\ expect = NoSnap
    /\ asm_line \in lines
    /\ asm_out = <<>>
    /\ decoded = <<>>
    /\ asm_in = <<>>
    /\ asm_res = NotAssembled

InitCodec == checks = FALSE /\ InitAsm(Lines)

\* assemble on the one-line program; the line's bytes are the first two
Emit ==
    /\ asm_out = <<>>
    /\ LET img == assemble(<<asm_line>>)
       IN  /\ img.ok
           /\ asm_out' = SubSeq(img.bytes, 1, 2)
    /\ UNCHANGED <<vmvars, checks, lastop, result, loaded, nsteps, clean, snaps,
                   undoing, expect, asm_line, decoded, asm_in, asm_res>>

Decode ==
    /\ asm_out # <<>>
    /\ decoded = <<>>
    /\ decoded' = InstrNew(asm_out[1], asm_out[2])
    /\ UNCHANGED <<vmvars, checks, lastop, result, loaded, nsteps, clean, snaps,
                   undoing, expect, asm_line, asm_out, asm_in, asm_res>>

NextCodec == Emit \/ Decode

SpecCodec == InitCodec /\ [][NextCodec]_vars

\* the instruction a line stands for, operands in the order of the opcode
\* table, with the operands of move given as the pair <<from, to>>
Intended(line, movePair) ==
    CASE line[1] = "none" -> <<"None">>
      [] line[1] = "loadm" -> <<"LoadFromMemory", line[2], line[3]>>
      [] line[1] = "loadb" -> <<"LoadWithConstant", line[2], line[3]>>
      [] line[1] = "storem" -> <<"StoreToMemory", line[2], line[3]>>
      [] line[1] = "move" -> <<"Move", movePair[1], movePair[2]>>
      [] line[1] = "addi" -> <<"AddInt", line[2], line[3], line[4]>>
      [] line[1] = "addf" -> <<"AddFloat", line[2], line[3], line[4]>>
      [] line[1] = "or" -> <<"Or", line[2], line[3], line[4]>>
      [] line[1] = "and" -> <<"And", line[2], line[3], line[4]>>
      [] line[1] = "xor" -> <<"Xor", line[2], line[3], line[4]>>
      [] line[1] = "rot" -> <<"Rotate", line[2], line[3]>>
      [] line[1] = "jump" -> <<"JumpIfEqual", line[2], line[3]>>
      [] line[1] = "halt" -> <<"Halt">>
      [] line[1] = "loadp" -> <<"LoadFromPointer", line[2], line[3]>>
      [] line[1] = "storep" -> <<"StoreToPointer", line[2], line[3]>>
      [] line[1] = "jumpl" -> <<"JumpIfLess", line[2], line[3]>>

\* C9: decoding the two bytes emitted for a line yields the instruction of
\* its opcode with the line's operands in the order of the opcode table; for
\* move the first operand is the source and the second the destination.
C9_RoundTrip ==
    decoded # <<>> => decoded = Intended(asm_line, <<asm_line[2], asm_line[3]>>)

\* C9, amended: as C9, but for move the decoded instruction is
\* Move(from, to) with from the second operand and to the first.
C9_RoundTripMoveSwapped ==
    decoded # <<>> => decoded = Intended(asm_line, <<asm_line[3], asm_line[2]>>)

\* a move with two different registers was assembled and decoded
C9_Witness ==
    /\ decoded # <<>>
    /\ asm_line[1] = "move"
    /\ asm_line[2] # asm_line[3]

(***************************************************************************)
(* move, assembled and executed: the program loads 7 into the first        *)
(* operand's register and 9 into the second's, then executes the line.     *)
(***************************************************************************)
MoveLines == { <<"move", a, b>> : a \in RegIdx, b \in RegIdx }

MoveProgram(line) == << <<"loadb", line[2], 7>>, <<"loadb", line[3], 9>>, line >>

InitMove == checks \in BOOLEAN /\ InitAsm(MoveLines)

\* main: assemble the source, fill a new VM with the image
LoadMove ==
    /\ loaded = "empty"
    /\ LET img == assemble(MoveProgram(asm_line))
       IN  /\ img.ok
           /\ SetVM(fill(VM, img.bytes))
           /\ asm_out' = SubSeq(img.bytes, 5, 6)
    /\ lastop' = "fill"
    /\ loaded' = "loaded"
    /\ UNCHANGED <<checks, result, nsteps, clean, snaps, undoing, expect,
                   asm_line, decoded, asm_in, asm_res>>

NextMove == LoadMove \/ Step

SpecMove == InitMove /\ [][NextMove]_vars

\* the step that executes the assembled move line
MoveStep == lastop' = "step" /\ loaded = "loaded" /\ nsteps = 2 /\ pc = 4

\* C8: executing `move Ra, Rb` leaves Rb holding the value Ra had, and Ra
\* and every other register unchanged.
C8_MoveSrcDst ==
    [][MoveStep =>
            /\ result' = "true"
            /\ regs' = [regs EXCEPT ![asm_line[3]] = regs[asm_line[2]]]]_vars

\* C8, amended: executing `move Ra, Rb` leaves Ra holding the value Rb had,
\* and Rb and every other register unchanged.
C8_MoveDstSrc ==
    [][MoveStep =>
            /\ result' = "true"
            /\ memory' = memory
            /\ regs' = [regs EXCEPT ![asm_line[2]] = regs[asm_line[3]]]]_vars

\* the move of two different registers was executed: the first holds 9
C8_Witness ==
    /\ lastop = "step" /\ nsteps = 3 /\ loaded = "loaded"
    /\ asm_line[2] # asm_line[3]
    /\ regs[asm_line[2]] = 9
    /\ regs[asm_line[3]] = 9

(***************************************************************************)
(* Programs handed to the assembler as source (asm_in), then loaded into a *)
(* new VM and stepped, as main does.                                       *)
(***************************************************************************)
InitSource(sources) ==
    /\ regs = VMNew.regs
    /\ memory = VMNew.memory
    /\ pc = VMNew.pc
    /\ actions = VMNew.actions
    /\ lastop = "new"
    /\ result = "none"
    /\ loaded = "empty"
    /\ nsteps = 0
    /\ clean = TRUE
    /\ snaps = <<>>
    /\ undoing = FALSE
    /\ expect = NoSnap
    /\ asm_line = <<>>
    /\ asm_out = <<>>
    /\ decoded = <<>>
    /\ asm_in \in sources
    /\ asm_res = NotAssembled

\* main: assemble the source, fill a new VM with the image
LoadSource ==
    /\ loaded = "empty"
    /\ LET img == assemble(asm_in)
       IN  /\ img.ok
           /\ SetVM(fill(VM, img.bytes))
           /\ asm_out' = img.bytes
    /\ lastop' = "fill"
    /\ loaded' = "loaded"
    /\ UNCHANGED <<checks, result, nsteps, clean, snaps, undoing, expect,
                   asm_line, decoded, asm_in, asm_res>>

\* the step loop of main on the loaded VM
StepLoaded == loaded = "loaded" /\ Step

(***************************************************************************)
(* The register-to-register arithmetic: two registers are loaded and one   *)
(* of addi, or, and, xor is executed on them.                              *)
(***************************************************************************)
AluMnemonics == {"addi", "or", "and", "xor"}
AluRegs == {0, 1, 15}
AluValues == {0, 1, 170, 200, 255}

AluSources ==
    { << <<"loadb", a, va>>, <<"loadb", b, vb>>, <<m, d, a, b>> >> :
        m \in AluMnemonics, d \in AluRegs, a \in AluRegs, b \in AluRegs,
        va \in AluValues, vb \in AluValues }

InitAlu == checks \in BOOLEAN /\ InitSource(AluSources)

NextAlu == LoadSource \/ StepLoaded

SpecAlu == InitAlu /\ [][NextAlu]_vars

\* the bits of a byte, and the byte of eight bits
BitsOf(x) == [i \in 0..7 |-> (x \div Pow2(i)) % 2]
FromBits(f) ==
    f[0] + 2 * f[1] + 4 * f[2] + 8 * f[3] + 16 * f[4] + 32 * f[5] + 64 * f[6] + 128 * f[7]

\* the result the claim gives for an opcode and two operand values
AluResult(op, x, y) ==
    CASE op = 5 -> IF x + y > 255 THEN x + y - 256 ELSE x + y
      [] op = 7 -> FromBits([i \in 0..7 |-> IF BitsOf(x)[i] = 1 \/ BitsOf(y)[i] = 1 THEN 1 ELSE 0])
      [] op = 8 -> FromBits([i \in 0..7 |-> IF BitsOf(x)[i] = 1 /\ BitsOf(y)[i] = 1 THEN 1 ELSE 0])
      [] op = 9 -> FromBits([i \in 0..7 |-> IF BitsOf(x)[i] # BitsOf(y)[i] THEN 1 ELSE 0])

\* C18: a step executing addi, or, and, xor with registers dst, a, b sets
\* reg[dst] to (reg[a] + reg[b]) mod 256, reg[a] | reg[b], reg[a] & reg[b],
\* reg[a] ^ reg[b], computed from the values before the step, and succeeds
\* also when the sum exceeds 255.
C18_Arithmetic ==
    [][(lastop' = "step" /\ pc <= 253 /\ Fetched \in {5, 7, 8, 9}) =>
            /\ result' = "true"
            /\ memory' = memory
            /\ regs' = [regs EXCEPT ![low(memory[pc])] =
                            AluResult(Fetched, regs[high(memory[pc + 1])],
                                      regs[low(memory[pc + 1])])]]_vars

\* an addi whose destination is one of its operands was executed and wrapped
C18_Witness ==
    /\ lastop = "step" /\ result = "true" /\ nsteps = 3
    /\ asm_in[3] = <<"addi", 15, 15, 1>>
    /\ asm_in[1][3] = 200 /\ asm_in[2][3] = 170
    /\ regs[15] = 114

(***************************************************************************)
(* The assembler on source text.  A text is a sequence of characters.  A   *)
(* source line is the record of the texts parse_line cuts out of it: the   *)
(* label before ':' (haslabel), the address after '@' (hasat), the         *)
(* mnemonic in lower case and the operands between the commas.  In the     *)
(* slots of Output.mem a value below 256 is Const(value) and a value       *)
(* 256 + k is Ref(refs[k + 1]).  Intermediate results are handed on as     *)
(* operator arguments, one operator for each step of the code.             *)
(***************************************************************************)
U8Max == 255
I32Max == 2147483647

LowerChars ==
    <<"a", "b", "c", "d", "e", "f", "g", "h", "i", "j", "k", "l", "m",
      "n", "o", "p", "q", "r", "s", "t", "u", "v", "w", "x", "y", "z">>
UpperChars ==
    <<"A", "B", "C", "D", "E", "F", "G", "H", "I", "J", "K", "L", "M",
      "N", "O", "P", "Q", "R", "S", "T", "U", "V", "W", "X", "Y", "Z">>
DigitChars == <<"0", "1", "2", "3", "4", "5", "6", "7", "8", "9">>

InChars(chars, ch) == \E i \in 1..Len(chars) : chars[i] = ch
CharIndex(chars, ch) == CHOOSE i \in 1..Len(chars) : chars[i] = ch

is_alphabetic(ch) == InChars(LowerChars, ch) \/ InChars(UpperChars, ch)
is_alphanumeric(ch) == is_alphabetic(ch) \/ InChars(DigitChars, ch)
identifier(ch) == is_alphanumeric(ch) \/ ch = "_"

char_lowercase(ch) ==
    IF InChars(UpperChars, ch) THEN LowerChars[CharIndex(UpperChars, ch)] ELSE ch

RECURSIVE to_ascii_lowercase(_)
to_ascii_lowercase(s) ==
    IF s = <<>> THEN <<>> ELSE <<char_lowercase(Head(s))>> \o to_ascii_lowercase(Tail(s))

starts_with(s, prefix) == Len(s) >= Len(prefix) /\ SubSeq(s, 1, Len(prefix)) = prefix
strip_prefix(s, prefix) == SubSeq(s, Len(prefix) + 1, Len(s))

\* str::find of a character: its first index, 0 for None
find(s, ch) ==
    IF \E i \in 1..Len(s) : s[i] = ch
    THEN CHOOSE i \in 1..Len(s) : s[i] = ch /\ \A j \in 1..(i - 1) : s[j] # ch
    ELSE 0

\* char::to_digit: the digit's value in the radix, -1 for None
digit_in_radix(v, radix) == IF v < radix THEN v ELSE -1
to_digit(ch, radix) ==
    IF InChars(DigitChars, ch) THEN digit_in_radix(CharIndex(DigitChars, ch) - 1, radix)
    ELSE IF is_alphabetic(ch)
    THEN digit_in_radix(CharIndex(LowerChars, char_lowercase(ch)) + 9, radix)
    ELSE -1

\* the magnitude of a digit string, -1 if a character is no digit of the radix
RECURSIVE digits_value(_, _, _)
add_digit(s, radix, acc, d) ==
    IF d < 0 THEN -1 ELSE digits_value(Tail(s), radix, acc * radix + d)
digits_value(s, radix, acc) ==
    IF s = <<>> THEN acc ELSE add_digit(s, radix, acc, to_digit(Head(s), radix))

ParseErr == [ok |-> FALSE, val |-> 0, rest |-> <<>>]
ParseOk(val) == [ok |-> TRUE, val |-> val, rest |-> <<>>]

\* from_str_radix of an integer type with the range min..max: an empty text, a
\* lone sign, a '-' for an unsigned type, a bad digit or a value out of
\* range is an Err
is_negative(src, min) == min < 0 /\ src[1] = "-"
unsigned_part(src, min) ==
    IF src[1] = "+" \/ is_negative(src, min) THEN Tail(src) ELSE src
checked_value(val, min, max) == IF val < min \/ val > max THEN ParseErr ELSE ParseOk(val)
signed_value(mag, neg, min, max) ==
    IF mag < 0 THEN ParseErr ELSE checked_value(IF neg THEN 0 - mag ELSE mag, min, max)
from_str_radix(src, radix, min, max) ==
    IF src = <<>> THEN ParseErr
    ELSE IF unsigned_part(src, min) = <<>> THEN ParseErr
    ELSE signed_value(digits_value(unsigned_part(src, min), radix, 0),
                      is_negative(src, min), min, max)

parse_i32(src, radix) == from_str_radix(src, radix, 0 - I32Max - 1, I32Max)
parse_u8(src, radix) == from_str_radix(src, radix, 0, U8Max)

\* length of the leading run of alphanumeric characters
RECURSIVE alnum_len(_)
alnum_len(s) ==
    IF s = <<>> \/ ~is_alphanumeric(Head(s)) THEN 0 ELSE 1 + alnum_len(Tail(s))

\* getr of assemble: the register index and the text left after the token
getr_token(s) == to_ascii_lowercase(SubSeq(s, 1, alnum_len(s)))
getr_rest(s) == SubSeq(s, alnum_len(s) + 1, Len(s))
getr_index(reg) ==
    IF starts_with(reg, <<"r">>) THEN parse_u8(strip_prefix(reg, <<"r">>), 16) ELSE ParseErr
getr_result(num, rest) == IF num.ok THEN [num EXCEPT !.rest = rest] ELSE ParseErr
asm_getr(s) ==
    IF Len(s) < 2 THEN ParseErr ELSE getr_result(getr_index(getr_token(s)), getr_rest(s))

\* getv: Const(num) or Ref(text)
ValErr == [ok |-> FALSE, ref |-> FALSE, num |-> 0, text |-> <<>>]
getv_const(num) ==
    IF ~num.ok \/ num.val > 256 \/ num.val < -256 THEN ValErr
    ELSE [ok |-> TRUE, ref |-> FALSE,
          num |-> (IF num.val < 0 THEN 256 + num.val ELSE num.val) % 256,
          text |-> <<>>]
getv_lowered(val) ==
    IF starts_with(val, <<"0", "x">>)
    THEN getv_const(parse_i32(strip_prefix(val, <<"0", "x">>), 16))
    ELSE IF val # <<>> /\ (is_alphabetic(val[1]) \/ val[1] = ".")
    THEN [ok |-> TRUE, ref |-> TRUE, num |-> 0, text |-> val]
    ELSE getv_const(parse_i32(val, 10))
getv(s) == getv_lowered(to_ascii_lowercase(s))

\* the label test of parse_line
valid_label(label) ==
    /\ label # <<>>
    /\ \A i \in 1..Len(label) : identifier(label[i]) \/ (i = 1 /\ label[1] = ".")

\* labels, output and reference texts of one assemble call; err names the
\* bail! that ended it
AsmNew == [out |-> OutputNew, labels |-> {}, refs |-> <<>>, err |-> "none"]

bail(st, kind) == [st EXCEPT !.err = kind, !.out.ok = FALSE]

\* the address after '@'
label_addr_lowered(num) ==
    IF starts_with(num, <<"0", "x">>) THEN parse_u8(strip_prefix(num, <<"0", "x">>), 16)
    ELSE parse_u8(num, 10)
label_addr(at) == label_addr_lowered(to_ascii_lowercase(at))

\* a relocation that leaves the cursor where it is
relocate_ignored(out, addr) == out
\* res.pos = addr
relocate(out, addr) == [out EXCEPT !.pos = addr]

has_label(labels, name) == \E l \in labels : l.name = name
get_label(labels, name) == (CHOOSE l \in labels : l.name = name).addr

\* the label definition of parse_line: the tests and the insert, with the
\* output as the '@' left it
bind_label(line, st, out) ==
    IF ~valid_label(line.label) THEN bail(st, "label")
    ELSE IF has_label(st.labels, line.label) THEN bail(st, "duplicate")
    ELSE IF out.pos = 256 THEN bail(st, "position")
    ELSE [st EXCEPT !.out = out,
                    !.labels = @ \cup {[name |-> line.label, addr |-> out.pos]}]
define_label_at(line, st, addr) ==
    IF ~addr.ok THEN bail(st, "number") ELSE bind_label(line, st, relocate(st.out, addr.val))
define_label(line, st) ==
    IF line.hasat THEN define_label_at(line, st, label_addr(line.at))
    ELSE bind_label(line, st, st.out)

\* the operands each mnemonic parses: registers (r) and values (v)
OperandKinds(mnemonic) ==
    CASE mnemonic \in {"none", "halt"} -> <<>>
      [] mnemonic \in {"loadm", "loadb", "storem", "rot", "jump", "jumpl"} -> <<"r", "v">>
      [] mnemonic \in {"addi", "addf", "or", "and", "xor"} -> <<"r", "r", "r">>
      [] mnemonic \in {"move", "loadp", "storep"} -> <<"r", "r">>
      [] mnemonic = "db" -> <<"v">>
      [] OTHER -> <<"unknown">>

\* getr, comma and getv along the operands of a line, in the order of p_rv,
\* p_rrr, p_rr; text left after a register makes the following comma fail
RECURSIVE parse_operands(_, _, _, _)
take_register(kinds, ops, i, acc, r) ==
    IF ~r.ok THEN [acc EXCEPT !.err = "register"]
    ELSE parse_operands(kinds, ops, i + 1,
             [acc EXCEPT !.vals = Append(@, r.val), !.rest = r.rest])
take_value(kinds, ops, i, acc, v) ==
    IF ~v.ok THEN [acc EXCEPT !.err = "value"]
    ELSE IF v.ref
    THEN parse_operands(kinds, ops, i + 1,
             [acc EXCEPT !.vals = Append(@, 256 + Len(acc.refs)),
                         !.refs = Append(@, v.text), !.rest = <<>>])
    ELSE parse_operands(kinds, ops, i + 1,
             [acc EXCEPT !.vals = Append(@, v.num), !.rest = <<>>])
operand_text(ops, i) == IF i > Len(ops) THEN <<>> ELSE ops[i]
parse_operands(kinds, ops, i, acc) ==
    IF i > Len(kinds) \/ acc.err # "none" THEN acc
    ELSE IF i > 1 /\ (i > Len(ops) \/ acc.rest # <<>>) THEN [acc EXCEPT !.err = "comma"]
    ELSE IF kinds[i] = "r"
    THEN take_register(kinds, ops, i, acc, asm_getr(operand_text(ops, i)))
    ELSE take_value(kinds, ops, i, acc, getv(operand_text(ops, i)))

NoOperands(st) == [vals |-> <<>>, refs |-> st.refs, rest |-> <<>>, err |-> "none"]

\* parse_line on the texts of one line: the label, the operands, the
\* emission of the mnemonic table, the test for extra content
finish_line(line, st, acc, out) ==
    IF ~out.ok THEN bail(st, "limit")
    ELSE IF acc.rest # <<>> \/ Len(line.ops) > Len(OperandKinds(line.mnemonic))
    THEN bail(st, "extra")
    ELSE [st EXCEPT !.out = out, !.refs = acc.refs]
emit_line(line, st, acc) ==
    IF acc.err # "none" THEN bail(st, acc.err)
    ELSE finish_line(line, st, acc, parse_line(<<line.mnemonic>> \o acc.vals, st.out))
parse_instruction(line, st) ==
    IF st.err # "none" \/ line.mnemonic = "" THEN st
    ELSE IF OperandKinds(line.mnemonic) = <<"unknown">> THEN bail(st, "mnemonic")
    ELSE emit_line(line, st,
             parse_operands(OperandKinds(line.mnemonic), line.ops, 1, NoOperands(st)))
parse_text_line(line, st) ==
    IF line.haslabel THEN parse_instruction(line, define_label(line, st))
    ELSE parse_instruction(line, st)

\* the loop of assemble over the lines lo..hi, up to the first Err; the
\* range is split in halves, which keeps the evaluation shallow
RECURSIVE parse_text_range(_, _, _, _)
parse_text_range(code, lo, hi, st) ==
    IF lo > hi \/ st.err # "none" THEN st
    ELSE IF lo = hi THEN parse_text_line(code[lo], st)
    ELSE parse_text_range(code, (lo + hi) \div 2 + 1, hi,
                          parse_text_range(code, lo, (lo + hi) \div 2, st))
parse_text_lines(code, st) == parse_text_range(code, 1, Len(code), st)

\* the resolution of one Ref after the pass over the lines
Resolved(ok, val, err) == [ok |-> ok, val |-> val, err |-> err]
ref_index(label) ==
    IF find(label, "+") > 0 THEN find(label, "+") ELSE find(label, "-")
resolve_addr(addr) ==
    IF addr \notin 0..U8Max THEN Resolved(FALSE, 0, "range") ELSE Resolved(TRUE, addr, "none")
resolve_name(name, labels, offset) ==
    IF ~offset.ok THEN Resolved(FALSE, 0, "offset")
    ELSE IF ~has_label(labels, name) THEN Resolved(FALSE, 0, "unknown")
    ELSE resolve_addr(get_label(labels, name) + offset.val)
resolve_at(label, labels, index) ==
    IF index > 0
    THEN resolve_name(SubSeq(label, 1, index - 1), labels,
                      parse_i32(SubSeq(label, index, Len(label)), 10))
    ELSE resolve_name(label, labels, ParseOk(0))
resolve(label, labels) == resolve_at(label, labels, ref_index(label))

\* the value of one slot of res.mem
resolve_val(st, val) ==
    IF val < 256 THEN Resolved(TRUE, val, "none")
    ELSE resolve(st.refs[val - 256 + 1], st.labels)
resolve_slot(st, i) == resolve_val(st, st.out.mem[i])

failed_slots(st) == {i \in 0..(AsmLimit - 1) : ~resolve_slot(st, i).ok}
first_slot(bad) == CHOOSE i \in bad : \A j \in bad : i <= j

AsmResult(st, ok, err, bytes) ==
    [ok |-> ok, err |-> err, bytes |-> bytes, labels |-> st.labels, pos |-> st.out.pos]

\* the collect over res.mem: the first Err, or the 256 bytes
collect(st, bad) ==
    IF bad # {} THEN AsmResult(st, FALSE, resolve_slot(st, first_slot(bad)).err, <<>>)
    ELSE AsmResult(st, TRUE, "none", [i \in 1..AsmLimit |-> resolve_slot(st, i - 1).val])
finish_assemble(st) ==
    IF st.err # "none" THEN AsmResult(st, FALSE, st.err, <<>>)
    ELSE collect(st, failed_slots(st))

\* assemble on text: the pass over the lines, then the resolution of every slot
assemble_text(code) == finish_assemble(parse_text_lines(code, AsmNew))

(***************************************************************************)
(* assemble applied to source texts.                                       *)
(***************************************************************************)
\* a source line from its texts
NoText == <<"?">>
TextLine(label, at, mnemonic, ops) ==
    [haslabel |-> label # NoText, label |-> IF label = NoText THEN <<>> ELSE label,
     hasat |-> at # NoText, at |-> IF at = NoText THEN <<>> ELSE at,
     mnemonic |-> mnemonic, ops |-> ops]

\* n copies of a line
RECURSIVE Repeat(_, _)
Repeat(line, n) ==
    IF n = 0 THEN <<>>
    ELSE IF n = 1 THEN <<line>>
    ELSE Repeat(line, n \div 2) \o Repeat(line, n - n \div 2)

\* the outcome of assemble: the image, and for the properties the error
\* kind, the label table and the cursor
SetResult(r) ==
    /\ asm_out' = r.bytes
    /\ asm_res' = [ok |-> r.ok, err |-> r.err, labels |-> r.labels, pos |-> r.pos]

AssembleText ==
    /\ asm_res = NotAssembled
    /\ SetResult(assemble_text(asm_in.code))
    /\ UNCHANGED <<vmvars, checks, lastop, result, loaded, nsteps, clean, snaps,
                   undoing, expect, asm_line, decoded, asm_in>>

Assembled == asm_res # NotAssembled

NoneLine == TextLine(NoText, NoText, "none", <<>>)
HaltLine == TextLine(NoText, NoText, "halt", <<>>)
DbLine(text) == TextLine(NoText, NoText, "db", <<text>>)

(***************************************************************************)
(* Sources with one label and one reference to it.                         *)
(***************************************************************************)
LabelNamesLower ==
    { <<"a">>, <<"l", "o", "o", "p">>, <<".", "x">>, <<"x", "_", "1">>, <<"e", "2">> }
LabelNamesOther ==
    { <<"L", "o", "o", "p">>, <<"E", "N", "D">>, <<".", "X", "1">>, <<"_", "t">> }
LabelNames == LabelNamesLower \cup LabelNamesOther

LabelOffsets ==
    { [text |-> <<>>, n |-> 0], [text |-> <<"+", "2">>, n |-> 2],
      [text |-> <<"-", "1">>, n |-> -1], [text |-> <<"-", "9">>, n |-> -9] }
LabelPads == {0, 1}
LabelUses == {"jump", "db"}

\* pad lines, then a line that refers to the label and the line that defines
\* it, in either order; addr is the cursor at the definition and slot the
\* slot of the referring operand
LabelSource(name, off, defined, forward, pad, via) ==
    LET ref == name \o off.text
        use == IF via = "db" THEN DbLine(ref)
               ELSE TextLine(NoText, NoText, "jump", << <<"R", "0">>, ref >>)
        size == IF via = "db" THEN 1 ELSE 2
        def == TextLine(IF defined THEN name ELSE <<"z", "z">>, NoText, "halt", <<>>)
    IN  [kind |-> "label",
         code |-> Repeat(NoneLine, pad) \o (IF forward THEN <<use, def>> ELSE <<def, use>>),
         name |-> name, off |-> off.n, defined |-> defined,
         addr |-> IF forward THEN 2 * pad + size ELSE 2 * pad,
         slot |-> IF forward THEN 2 * pad + size - 1 ELSE 2 * pad + 2 + size - 1]

LabelSources ==
    { LabelSource(name, off, defined, forward, pad, via) :
        name \in LabelNames, off \in LabelOffsets, defined \in BOOLEAN,
        forward \in BOOLEAN, pad \in LabelPads, via \in LabelUses }

(***************************************************************************)
(* Sources of one instruction with one register operand under test.        *)
(***************************************************************************)
RegTexts ==
    { <<"R", "0">>, <<"r", "5">>, <<"R", "F">>, <<"R", "f">>, <<"R", "1", "0">>,
      <<"R", "F", "F">>, <<"R", "1", "F">>, <<"R", "0", "A">>, <<"R", "G">>, <<"R">>,
      <<"X", "1">>, <<"R", "1", "0", "0">>, <<"1">>, <<"R", "R", "1">> }

\* mnemonic, opcode, its operands, and the operand put under test
RegSlots ==
    { [m |-> "loadb", op |-> 2, ops |-> << <<"R", "1">>, <<"5">> >>, i |-> 1],
      [m |-> "rot", op |-> 10, ops |-> << <<"R", "1">>, <<"3">> >>, i |-> 1],
      [m |-> "jumpl", op |-> 15, ops |-> << <<"R", "1">>, <<"8">> >>, i |-> 1],
      [m |-> "addi", op |-> 5, ops |-> << <<"R", "1">>, <<"R", "2">>, <<"R", "3">> >>, i |-> 1],
      [m |-> "addi", op |-> 5, ops |-> << <<"R", "1">>, <<"R", "2">>, <<"R", "3">> >>, i |-> 2],
      [m |-> "xor", op |-> 9, ops |-> << <<"R", "1">>, <<"R", "2">>, <<"R", "3">> >>, i |-> 3],
      [m |-> "move", op |-> 4, ops |-> << <<"R", "1">>, <<"R", "2">> >>, i |-> 1],
      [m |-> "move", op |-> 4, ops |-> << <<"R", "1">>, <<"R", "2">> >>, i |-> 2],
      [m |-> "loadp", op |-> 13, ops |-> << <<"R", "1">>, <<"R", "2">> >>, i |-> 1],
      [m |-> "storep", op |-> 14, ops |-> << <<"R", "1">>, <<"R", "2">> >>, i |-> 2] }

RegSource(slot, text) ==
    [kind |-> "reg",
     code |-> << TextLine(NoText, NoText, slot.m, [slot.ops EXCEPT ![slot.i] = text]) >>,
     text |-> text, opcode |-> slot.op]

RegSources == { RegSource(slot, text) : slot \in RegSlots, text \in RegTexts }

(***************************************************************************)
(* Sources that fill the output up to and past its 256 slots: count bytes  *)
(* are emitted from the cursor start, and a label may close the program.   *)
(***************************************************************************)
CapLines ==
    { NoneLine, HaltLine,
      TextLine(NoText, NoText, "loadb", << <<"R", "1">>, <<"7">> >>) }
CapInstrs == 126..129
CapBytes == 0..3
CapStarts ==
    { [text |-> <<"2", "5", "0">>, n |-> 250], [text |-> <<"2", "5", "3">>, n |-> 253],
      [text |-> <<"0", "x", "f", "e">>, n |-> 254], [text |-> <<"2", "5", "5">>, n |-> 255] }
CapTailInstrs == 0..3

CapEnd(endlabel) ==
    IF endlabel THEN << TextLine(<<"e", "n", "d">>, NoText, "", <<>>) >> ELSE <<>>

CapSource(line, k, d, endlabel) ==
    [kind |-> "cap",
     code |-> Repeat(line, k) \o Repeat(DbLine(<<"9">>), d) \o CapEnd(endlabel),
     start |-> 0, count |-> 2 * k + d, endlabel |-> endlabel]

CapSourceAt(at, k, d, endlabel) ==
    [kind |-> "cap",
     code |-> << TextLine(<<"t", "o", "p">>, at.text, "", <<>>) >> \o Repeat(HaltLine, k)
                  \o Repeat(DbLine(<<"9">>), d) \o CapEnd(endlabel),
     start |-> at.n, count |-> 2 * k + d, endlabel |-> endlabel]

CapSources ==
    { CapSource(line, k, d, e) :
        line \in CapLines, k \in CapInstrs, d \in CapBytes, e \in BOOLEAN }
    \cup { CapSourceAt(at, k, d, e) :
             at \in CapStarts, k \in CapTailInstrs, d \in CapBytes, e \in BOOLEAN }

(***************************************************************************)
(* Sources with a label definition `name@A:` or `name:` after k            *)
(* instructions; the label's line or the next one loads the label's        *)
(* address, and a byte follows.                                            *)
(***************************************************************************)
RelocNames == { <<"x">>, <<"t", "a", "b">> }
RelocAts ==
    { [text |-> <<"0">>, n |-> 0], [text |-> <<"7">>, n |-> 7],
      [text |-> <<"1", "6">>, n |-> 16], [text |-> <<"0", "x", "1", "0">>, n |-> 16],
      [text |-> <<"1", "0", "0">>, n |-> 100], [text |-> <<"0", "X", "f", "D">>, n |-> 253],
      [text |-> <<"2", "5", "3">>, n |-> 253], [text |-> <<"2", "5", "4">>, n |-> 254],
      [text |-> <<"2", "5", "5">>, n |-> 255] }
RelocBefore == 0..3

RelocSource(name, at, with_at, k, same_line) ==
    LET operands == << <<"R", "1">>, name >>
        here == IF with_at THEN at.text ELSE NoText
    IN  [kind |-> "reloc",
         code |-> Repeat(HaltLine, k)
                  \o (IF same_line THEN << TextLine(name, here, "loadb", operands) >>
                      ELSE << TextLine(name, here, "", <<>>),
                              TextLine(NoText, NoText, "loadb", operands) >>)
                  \o << DbLine(<<"7">>) >>,
         name |-> name, with_at |-> with_at, before |-> 2 * k,
         addr |-> IF with_at THEN at.n ELSE 2 * k]

RelocSources ==
    { RelocSource(name, at, TRUE, k, s) :
        name \in RelocNames, at \in RelocAts, k \in RelocBefore, s \in BOOLEAN }
    \cup { RelocSource(name, [text |-> <<>>, n |-> 0], FALSE, k, s) :
             name \in RelocNames, k \in RelocBefore, s \in BOOLEAN }

TextSources == LabelSources \cup RegSources \cup CapSources \cup RelocSources

InitText == checks = FALSE /\ InitSource(TextSources)

NextText == AssembleText

SpecText == InitText /\ [][NextText]_vars

\* C14: a value operand naming a label that is defined exactly once, before
\* or after the referring line, is emitted as the label's address plus the
\* operand's offset when that lies in 0..255, and a reference to a label that
\* is never defined makes assembly fail; for every valid label name, case-sensitive.
C14_LabelResolution ==
    (Assembled /\ asm_in.kind = "label") =>
        /\ (asm_in.defined /\ asm_in.addr + asm_in.off \in 0..255) =>
               /\ asm_res.ok
               /\ asm_out[asm_in.slot + 1] = asm_in.addr + asm_in.off
        /\ ~asm_in.defined => ~asm_res.ok

\* the same for the names that are their own lower case and start with a
\* letter or '.'
C14_LowercaseLabels ==
    (Assembled /\ asm_in.kind = "label" /\ asm_in.name \in LabelNamesLower) =>
        /\ (asm_in.defined /\ asm_in.addr + asm_in.off \in 0..255) =>
               /\ asm_res.ok
               /\ asm_out[asm_in.slot + 1] = asm_in.addr + asm_in.off
        /\ (asm_in.defined /\ asm_in.addr + asm_in.off \notin 0..255) => asm_res.err = "range"
        /\ ~asm_in.defined => asm_res.err = "unknown"

\* the other names are defined without error but not found by any reference
C14_OtherLabelsUnresolved ==
    (Assembled /\ asm_in.kind = "label" /\ asm_in.name \in LabelNamesOther) =>
        /\ ~asm_res.ok
        /\ (asm_in.defined /\ asm_res.err = "unknown") =>
               [name |-> asm_in.name, addr |-> asm_in.addr] \in asm_res.labels

HexChars ==
    { "0", "1", "2", "3", "4", "5", "6", "7", "8", "9",
      "a", "b", "c", "d", "e", "f", "A", "B", "C", "D", "E", "F" }
OneNibble(text) == Len(text) = 2 /\ text[1] \in {"R", "r"} /\ text[2] \in HexChars
TwoNibbles(text) ==
    Len(text) = 3 /\ text[1] \in {"R", "r"} /\ text[2] \in HexChars /\ text[3] \in HexChars

\* C16: assemble accepts a register operand only if it is R followed by one
\* hexadecimal nibble; any other operand fails as a malformed register, so
\* the high nibble of the instruction's first byte is the mnemonic's opcode.
C16_RegisterNibble ==
    (Assembled /\ asm_in.kind = "reg") =>
        /\ asm_res.ok => OneNibble(asm_in.text)
        /\ ~OneNibble(asm_in.text) => asm_res.err = "register"
        /\ asm_res.ok => high(asm_out[1]) = asm_in.opcode

\* what assemble does accept: R followed by one or two hexadecimal digits
C16_RegisterByte ==
    (Assembled /\ asm_in.kind = "reg") =>
        /\ asm_res.ok <=> (OneNibble(asm_in.text) \/ TwoNibbles(asm_in.text))
        /\ ~asm_res.ok => asm_res.err = "register"
        /\ (asm_res.ok /\ OneNibble(asm_in.text)) => high(asm_out[1]) = asm_in.opcode

\* C15: emitting up to exactly 256 bytes raises no capacity error, emitting a
\* byte at cursor 256 fails the assembly with the exceeded-limit error and
\* no image, and a successful assembly returns 256 bytes with 0 in every
\* slot that was never written.
C15_Capacity ==
    /\ (Assembled /\ asm_res.ok) => Len(asm_out) = 256
    /\ (Assembled /\ asm_in.kind = "cap") =>
           LET end == asm_in.start + asm_in.count
           IN  /\ (end <= 256 /\ ~(asm_in.endlabel /\ end = 256)) => asm_res.ok
               /\ (end <= 256 /\ asm_in.endlabel /\ end = 256) => asm_res.err = "position"
               /\ end > 256 => (~asm_res.ok /\ asm_res.err = "limit" /\ Len(asm_out) = 0)
               /\ asm_res.ok =>
                      \A i \in 0..255 : (i < asm_in.start \/ i >= end) => asm_out[i + 1] = 0

\* a program of 127 instructions and 2 bytes filled the output exactly;
\* one of 128 instructions and 1 byte was refused
C15_Witness ==
    /\ Assembled /\ asm_in.kind = "cap" /\ asm_in.start = 0 /\ asm_in.count = 256
    /\ Len(asm_in.code) = 129 /\ asm_res.ok /\ asm_out[256] = 9

C15_WitnessRefused ==
    /\ Assembled /\ asm_in.kind = "cap" /\ asm_in.start = 0 /\ asm_in.count = 257
    /\ asm_res.err = "limit"

\* C19: `name@A:` with A in 0..255 binds name to A and moves the cursor to
\* A: the bytes emitted on that line or after it are stored from slot A on;
\* `name:` binds name to the current cursor and leaves the cursor there.
C19_LabelAt ==
    (Assembled /\ asm_in.kind = "reloc") =>
        LET A == asm_in.addr
        IN  /\ [name |-> asm_in.name, addr |-> A] \in asm_res.labels
            /\ A + 3 <= 256 =>
                   /\ asm_res.ok
                   /\ asm_res.pos = A + 3
                   /\ asm_out[A + 1] = 33 /\ asm_out[A + 2] = A /\ asm_out[A + 3] = 7
                   /\ \A i \in 0..(asm_in.before - 1) :
                          i \notin A..(A + 2) => asm_out[i + 1] = (IF i % 2 = 0 THEN 192 ELSE 0)
                   /\ \A i \in 0..255 :
                          (i >= asm_in.before /\ i \notin A..(A + 2)) => asm_out[i + 1] = 0

\* `tab@0x10:` on a line of its own after three instructions: the next
\* line's bytes are at 16 and 17
C19_Witness ==
    /\ Assembled /\ asm_in.kind = "reloc" /\ asm_in.with_at /\ asm_in.before = 6
    /\ asm_in.addr = 16 /\ Len(asm_in.code) = 6
    /\ asm_res.ok /\ asm_out[17] = 33 /\ asm_out[18] = 16 /\ asm_out[19] = 7

\* `x: loadb R1, x` after two instructions: bound to 4, emitted at 4
C19_WitnessNoAt ==
    /\ Assembled /\ asm_in.kind = "reloc" /\ ~asm_in.with_at /\ asm_in.before = 4
    /\ asm_res.ok /\ asm_out[5] = 33 /\ asm_out[6] = 4 /\ asm_res.pos = 7

(***************************************************************************)
(* Stepping and undoing around the low addresses: programs that jump to    *)
(* 0 and 1, with Halt instructions on the way, under any interleaving of   *)
(* fill, reset, step and undo.                                             *)
(***************************************************************************)
UndoSources ==
    { << <<"jump", 0, 0>> >>,
      << <<"jump", 0, 1>> >>,
      << <<"halt">>, <<"jump", 0, 0>> >>,
      << <<"loadb", 1, 5>>, <<"jump", 0, 0>> >>,
      << <<"none">>, <<"jump", 0, 1>>, <<"halt">> >>,
      << <<"jumpl", 1, 0>>, <<"loadb", 0, 7>>, <<"jumpl", 1, 1>> >>,
      << <<"storem", 0, 3>>, <<"jump", 0, 0>> >>,
      << <<"loadb", 0, 192>>, <<"storem", 0, 0>>, <<"jump", 0, 0>> >> }

InitUndo == checks \in BOOLEAN /\ InitSource(UndoSources)

\* fill again with the image already loaded: memory is restored, pc and the
\* journal stay
Refill ==
    /\ ~Crashed
    /\ loaded = "loaded"
    /\ loaded' = "reloaded"
    /\ SetVM(fill(VM, asm_out))
    /\ lastop' = "fill"
    /\ result' = "none"
    /\ snaps' = <<>>
    /\ undoing' = FALSE
    /\ expect' = NoSnap
    /\ clean' = (clean /\ nsteps = 0)
    /\ UNCHANGED <<checks, nsteps, asmvars>>

NextUndo == LoadSource \/ Refill \/ Reset \/ Step \/ Undo

SpecUndo == InitUndo /\ [][NextUndo]_vars

\* the pc after the journal's last Action is applied again
ReappliedPc ==
    IF actions[Len(actions)][1] = "Jump" THEN actions[Len(actions)][2] ELSE pc

\* C21: whenever undo pops an Action, the pc after that Action is applied
\* again is at least 2: the subtraction of 2 does not underflow, undo
\* returns, and pc is the re-applied pc minus 2.
C21_UndoNoUnderflow ==
    [][(lastop' = "undo" /\ actions # <<>>) =>
            /\ ReappliedPc >= 2
            /\ result' = "none"
            /\ pc' = ReappliedPc - 2
            /\ actions' = SubSeq(actions, 1, Len(actions) - 1)]_vars

\* the same in every reachable state an undo can be called in
C21_JournalPcAtLeast2 == actions # <<>> => ReappliedPc >= 2

\* an undo popped an Action at the boundary: the re-applied pc was 2, pc is
\* now 0 and older Actions remain in the journal
C21_Witness ==
    /\ lastop = "undo" /\ result = "none" /\ pc = 0 /\ actions # <<>>
    /\ asm_in \in UndoSources

(***************************************************************************)
(* Run to completion: `while vm.step()? {}`, started in a state reached    *)
(* by step, undo and reset calls on the loaded VM.  The loop calls step    *)
(* again as long as step returned true; it is followed here up to the      *)
(* first jump it takes.                                                    *)
(***************************************************************************)
RunSources ==
    { << <<"none">> >>,
      << <<"loadb", 1, 5>>, <<"none">>, <<"halt">> >>,
      << <<"jump", 0, 253>> >>,
      << <<"jump", 0, 250>> >>,
      << <<"none">>, <<"addf", 1, 2, 3>> >>,
      << <<"loadb", 1, 176>>, <<"rot", 1, 8>>, <<"rot", 1, 3>> >>,
      << <<"loadb", 1, 5>>, <<"jump", 1, 0>>, <<"jumpl", 1, 0>>,
         <<"storem", 1, 200>> >>,
      << <<"loadb", 1, 1>>, <<"addi", 2, 1, 2>>, <<"jump", 0, 2>> >> }

InitRun == checks \in BOOLEAN /\ InitSource(RunSources)

\* the loop has been entered
InRun == lastop \in {"run", "run_jumped"}

\* the step applied a Jump: a conditional jump was taken
JumpTaken(before, after) ==
    /\ Len(after.actions) = Len(before.actions) + 1
    /\ after.actions[Len(after.actions)][1] = "Jump"

\* one call of step by the loop
RunBody ==
    /\ \E r \in {step(VM, checks)} :
           /\ SetVM(r.vm)
           /\ result' = r.res
           /\ lastop' = IF r.res = "true" /\ JumpTaken(VM, r.vm)
                        THEN "run_jumped" ELSE "run"
    /\ snaps' = <<>>
    /\ undoing' = FALSE
    /\ expect' = NoSnap
    /\ UNCHANGED <<checks, loaded, nsteps, clean, asmvars>>

\* the loop is entered in a state of the loaded VM
RunStart == ~Crashed /\ loaded = "loaded" /\ ~InRun /\ RunBody

\* the loop goes on: its last step returned true without taking a jump
Running == lastop = "run" /\ result = "true"

\* `while vm.step()? {}`: step is called again as long as it returned true
RunAgain == Running /\ RunBody

NextRun ==
    \/ LoadSource
    \/ ~InRun /\ StepLoaded
    \/ ~InRun /\ loaded = "loaded" /\ Undo
    \/ ~InRun /\ loaded = "loaded" /\ Reset
    \/ RunStart
    \/ RunAgain

\* the loop calls step again at once: a loop that can go on does go on
SpecRun == InitRun /\ [][NextRun]_vars /\ WF_vars(RunAgain)

\* the loop has stopped: Halt (false), the overflow error, or a panic
Stopped == lastop = "run" /\ result \in {"false", "err_pc_overflow"} \cup Panics

\* C22: in the run loop, a step that returns true without taking a jump
\* leaves pc exactly 2 higher, and a loop that is running eventually stops
\* (step returns false or fails) unless it takes a jump.
C22_RunTerminates ==
    /\ [][(lastop' = "run" /\ result' = "true") => pc' = pc + 2]_vars
    /\ [](Running => <>(Stopped \/ lastop = "run_jumped"))

\* the loop ran from address 0 over every instruction up to 252 without a
\* jump and was stopped by the overflow error at 254
C22_Witness ==
    /\ lastop = "run" /\ result = "err_pc_overflow" /\ pc = 254
    /\ Len(actions) >= 127 /\ asm_in \in RunSources

\* the loop was stopped by a Halt
C22_WitnessHalt ==
    /\ lastop = "run" /\ result = "false" /\ asm_in \in RunSources

====
